---- MODULE Spec2Model ----
(***************************************************************************)
(* Model of src/main.rs: discovery of Rust projects under <home>/rust      *)
(* (find_projects, parse_cargo_toml), the interactive menu                 *)
(* (display_projects, display_project_details) and the Ctrl+C handler      *)
(* installed by main.                                                      *)
(*                                                                         *)
(* Strings are tuples of byte values, so that String's Ord (byte-wise      *)
(* lexicographic) is computed rather than assumed.  Option<T> is a tuple   *)
(* of length 0 (None) or 1 (Some(x)).  Paths are tuples of components.     *)
(***************************************************************************)
EXTENDS Integers, Sequences, FiniteSets, TLC

\* ------------------------------------------------------------------ bounds

\* Number of lines the session may read from standard input.
MaxReads == 2

\* ----------------------------------------------------------------- Option

None == <<>>

Some(x) == <<x>>

IsSome(o) == Len(o) = 1

Unwrap(o) == o[1]

\* ---------------------------------------------------------------- strings

S_a == <<97>>

S_ab == <<97, 98>>

S_B == <<66>>

S_d == <<100>>

S_e == <<101>>

S_empty == <<>>

\* "No description"
NoDescription == <<78, 111, 32, 100, 101, 115, 99, 114, 105, 112, 116, 105, 111, 110>>

\* Ord for u8 slices / String: compare element by element, a proper prefix
\* is smaller.  Returns -1, 0 or 1.
RECURSIVE StrCmp(_, _)
StrCmp(a, b) ==
    IF a = <<>> /\ b = <<>> THEN 0
    ELSE IF a = <<>> THEN -1
    ELSE IF b = <<>> THEN 1
    ELSE IF Head(a) < Head(b) THEN -1
    ELSE IF Head(a) > Head(b) THEN 1
    ELSE StrCmp(Tail(a), Tail(b))

\* char::is_whitespace restricted to the bytes used: space, \t, \n, \r.
IsWhitespace(c) == c \in {32, 9, 10, 13}

RECURSIVE TrimStart(_)
TrimStart(s) ==
    IF s # <<>> /\ IsWhitespace(Head(s)) THEN TrimStart(Tail(s)) ELSE s

RECURSIVE TrimEnd(_)
TrimEnd(s) ==
    IF s # <<>> /\ IsWhitespace(s[Len(s)])
    THEN TrimEnd(SubSeq(s, 1, Len(s) - 1))
    ELSE s

\* str::trim
Trim(s) == TrimEnd(TrimStart(s))

\* str::to_lowercase on ASCII: 'A'..'Z' -> 'a'..'z'.
ToLowercaseIdentity(s) == s

ToLowercase(s) ==
    [i \in 1..Len(s) |-> IF s[i] >= 65 /\ s[i] <= 90 THEN s[i] + 32 ELSE s[i]]

IsDigit(c) == c >= 48 /\ c <= 57

RECURSIVE DigitsValue(_, _)
DigitsValue(s, acc) ==
    IF s = <<>> THEN acc ELSE DigitsValue(Tail(s), acc * 10 + (Head(s) - 48))

\* str::parse::<usize>: an optional '+', then one or more decimal digits.
\* A leading '-' is an invalid digit for an unsigned type.  The lines
\* modelled are at most three digits long, so the value never overflows.
ParseUsize(s) ==
    LET digits == IF s # <<>> /\ Head(s) = 43 THEN Tail(s) ELSE s
    IN  IF digits # <<>> /\ \A i \in 1..Len(digits) : IsDigit(digits[i])
        THEN Some(DigitsValue(digits, 0))
        ELSE None

\* usize::MAX.  TLC's integers are 32 bits wide, so 2^31 - 1 stands
\* for 2^64 - 1: all that matters is that it exceeds every collection length.
UsizeMax == (2^30 - 1) + 2^30

\* ------------------------------------------------------------- toml::Value

TString(s) == [type |-> "String", val |-> s]

TInteger == [type |-> "Integer", val |-> <<>>]

\* A table maps each key to Some(value) or None (key absent).
TTable(pkg, nm, desc) ==
    [type |-> "Table", val |-> [package |-> pkg, name |-> nm, description |-> desc]]

EmptyTable == TTable(None, None, None)

\* Value::get(key): Some for a key present in a table, None otherwise
\* (also None when the value is not a table).
ValueGet(v, key) == IF v.type = "Table" THEN v.val[key] ELSE None

\* Value::as_str
AsStr(v) == IF v.type = "String" THEN Some(v.val) ELSE None

\* A manifest text is abstracted to whether it is valid TOML and, if so,
\* the document it denotes.  str::parse::<Value>.
TomlParse(text) == IF text.syntax_ok THEN Some(text.doc) ELSE None

Doc(pkg) == [syntax_ok |-> TRUE, doc |-> TTable(Some(pkg), None, None)]

Package(nm, desc) == TTable(None, nm, desc)

\* ------------------------------------------------------------ file system

DirNames == {"d1", "d2", "d3"}

\* <home>/rust
RootPath == <<"home", "rust">>

File(readable, text) == [readable |-> readable, text |-> text]

NoText == [syntax_ok |-> FALSE, doc |-> EmptyTable]

\* Sample manifests: every way parse_cargo_toml can fail, and valid ones
\* with equal names, names ordered against their directory order, an
\* upper-case name and an empty name.
M_unreadable == File(FALSE, NoText)

M_syntax == File(TRUE, NoText)

M_nopackage == File(TRUE, [syntax_ok |-> TRUE, doc |-> EmptyTable])

M_pkg_nontable == File(TRUE, Doc(TString(S_a)))

M_noname == File(TRUE, Doc(Package(None, Some(TString(S_d)))))

M_name_nonstr == File(TRUE, Doc(Package(Some(TInteger), None)))

M_name_empty == File(TRUE, Doc(Package(Some(TString(S_empty)), None)))

M_a == File(TRUE, Doc(Package(Some(TString(S_a)), None)))

M_a_d == File(TRUE, Doc(Package(Some(TString(S_a)), Some(TString(S_d)))))

M_B_nonstr == File(TRUE, Doc(Package(Some(TString(S_B)), Some(TInteger))))

M_ab_e == File(TRUE, Doc(Package(Some(TString(S_ab)), Some(TString(S_e)))))

Entry(present, ok, dir, cargo) ==
    [present |-> present, ok |-> ok, is_dir |-> dir, cargo |-> cargo]

Absent == Entry(FALSE, FALSE, FALSE, None)

\* An entry whose DirEntry result is an Err.
ErrEntry == Entry(TRUE, FALSE, FALSE, None)

PlainFile == Entry(TRUE, TRUE, FALSE, None)

Dir(cargo) == Entry(TRUE, TRUE, TRUE, cargo)

CoreManifests == {M_a, M_a_d, M_B_nonstr, M_ab_e}

AllManifests ==
    CoreManifests \cup {M_unreadable, M_syntax, M_nopackage, M_pkg_nontable,
                        M_noname, M_name_nonstr, M_name_empty}

CoreEntries == {Absent, PlainFile} \cup {Dir(Some(m)) : m \in CoreManifests}

AllEntries ==
    {Absent, ErrEntry, PlainFile, Dir(None)} \cup {Dir(Some(m)) : m \in AllManifests}

\* The root directories explored: d1 ranges over every kind of entry, d2
\* and d3 over the kinds that matter for ordering and duplicates.
Trees ==
    {t \in [DirNames -> AllEntries] : t["d2"] \in CoreEntries /\ t["d3"] \in CoreEntries}

EmptyTree == [d \in DirNames |-> Absent]

\* ------------------------------------------------------------------ state

VARIABLES
    env,        \* command line and environment: [args, home, root]
    tree,       \* the entries of <home>/rust
    pc,         \* position of the main thread
    visited,    \* entries read_dir has yielded so far in find_projects, in order
    projects,   \* the BTreeMap<String, ProjectInfo>, as its sorted entries
    diag,       \* the "Could not read directory" line on stderr
    listing,    \* lines printed by the listing loop of display_projects
    input,      \* the line last read, trimmed
    out,        \* lines printed by the last main-thread step
    nPrompts,   \* number of "> " prompts printed
    nReads,     \* number of lines read from stdin
    sig,        \* Ctrl+C: "none", "pending" (delivered), "noticed" (notice printed)
    exit,       \* "running", or how the process ended
    sigAt,      \* whether Ctrl+C was delivered during the session ("session") or not
    visited2,   \* a second, independent run of find_projects on the same tree
    projects2

vars ==
    <<env, tree, pc, visited, projects, diag, listing, input, out, nPrompts,
      nReads, sig, exit, sigAt, visited2, projects2>>

\* ------------------------------------------------------------------ paths

\* Path::join with a single-component argument
PathJoin(p, c) == Append(p, c)

\* Path::parent
PathParent(p) == IF p = <<>> THEN None ELSE Some(SubSeq(p, 1, Len(p) - 1))

\* The root entry a path <home>/rust/<d>[/Cargo.toml] goes through.
EntryOf(p) == tree[p[Len(RootPath) + 1]]

\* Path::is_dir for <home>/rust/<d>
IsDir(p) == EntryOf(p).present /\ EntryOf(p).is_dir

\* Path::exists for <home>/rust/<d>/Cargo.toml
Exists(p) == IsDir(p) /\ IsSome(EntryOf(p).cargo)

\* fs::read_to_string(...).ok() for <home>/rust/<d>/Cargo.toml
ReadToString(p) ==
    IF Exists(p) /\ Unwrap(EntryOf(p).cargo).readable
    THEN Some(Unwrap(EntryOf(p).cargo).text)
    ELSE None

\* --------------------------------------------------------- parse_cargo_toml

ProjectInfo(name, description, path) ==
    [name |-> name, description |-> description, path |-> path]

\* Option::and_then(|d| d.as_str())
AndThenAsStr(o) == IF IsSome(o) THEN AsStr(Unwrap(o)) ELSE None

parse_cargo_toml_desc_required(path) ==
    LET cargo_toml == ReadToString(path)
        parsed == IF IsSome(cargo_toml) THEN TomlParse(Unwrap(cargo_toml)) ELSE None
        package == IF IsSome(parsed) THEN ValueGet(Unwrap(parsed), "package") ELSE None
        nameV == IF IsSome(package) THEN ValueGet(Unwrap(package), "name") ELSE None
        name == AndThenAsStr(nameV)
        description ==
            IF IsSome(package)
            THEN AndThenAsStr(ValueGet(Unwrap(package), "description"))
            ELSE None
        parent == PathParent(path)
    IN  IF IsSome(name) /\ IsSome(parent) /\ IsSome(description)
        THEN Some(ProjectInfo(Unwrap(name), description, Unwrap(parent)))
        ELSE None

parse_cargo_toml(path) ==
    LET cargo_toml == ReadToString(path)
    IN  IF ~IsSome(cargo_toml) THEN None ELSE
    LET parsed == TomlParse(Unwrap(cargo_toml))
    IN  IF ~IsSome(parsed) THEN None ELSE
    LET package == ValueGet(Unwrap(parsed), "package")
    IN  IF ~IsSome(package) THEN None ELSE
    LET nameV == ValueGet(Unwrap(package), "name")
    IN  IF ~IsSome(nameV) THEN None ELSE
    LET name == AsStr(Unwrap(nameV))
    IN  IF ~IsSome(name) THEN None ELSE
    LET description == AndThenAsStr(ValueGet(Unwrap(package), "description"))
        parent == PathParent(path)
    IN  IF ~IsSome(parent) THEN None
        ELSE Some(ProjectInfo(Unwrap(name), description, Unwrap(parent)))

\* ----------------------------------------------------------------- BTreeMap

MapEntry(k, v) == [key |-> k, value |-> v]

\* A Vec-like push: no ordering, no replacement.
BTreeInsertPush(m, k, v) == Append(m, MapEntry(k, v))

\* Keeps the value already stored under an equal key.
RECURSIVE BTreeInsertKeepFirst(_, _, _)
BTreeInsertKeepFirst(m, k, v) ==
    IF m = <<>> THEN <<MapEntry(k, v)>>
    ELSE LET c == StrCmp(k, Head(m).key)
         IN  IF c = 0 THEN m
             ELSE IF c < 0 THEN <<MapEntry(k, v)>> \o m
             ELSE <<Head(m)>> \o BTreeInsertKeepFirst(Tail(m), k, v)

\* BTreeMap::insert: entries are kept in key order; an equal key keeps its
\* place and gets the new value.
RECURSIVE BTreeInsert(_, _, _)
BTreeInsert(m, k, v) ==
    IF m = <<>> THEN <<MapEntry(k, v)>>
    ELSE LET c == StrCmp(k, Head(m).key)
         IN  IF c = 0 THEN <<MapEntry(Head(m).key, v)>> \o Tail(m)
             ELSE IF c < 0 THEN <<MapEntry(k, v)>> \o m
             ELSE <<Head(m)>> \o BTreeInsert(Tail(m), k, v)

\* Iterator::nth(n) over projects.iter(): the element at 0-based position n.
NthOffByOne(m, n) == IF n >= 1 /\ n <= Len(m) THEN Some(m[n]) ELSE None

Nth(m, n) == IF n < Len(m) THEN Some(m[n + 1]) ELSE None

\* ------------------------------------------------------------ find_projects

\* The body of the for loop for the entry named d, on the map m.
VisitEntry(m, d) ==
    IF ~tree[d].ok THEN m
    ELSE LET path == PathJoin(RootPath, d)
         IN  IF ~IsDir(path) THEN m
             ELSE LET cargo_toml_path == PathJoin(path, "Cargo.toml")
                  IN  IF ~Exists(cargo_toml_path) THEN m
                      ELSE LET info == parse_cargo_toml(cargo_toml_path)
                           IN  IF IsSome(info)
                               THEN BTreeInsert(m, Unwrap(info).name, Unwrap(info))
                               ELSE m

Present == {d \in DirNames : tree[d].present}

Range(q) == {q[i] : i \in 1..Len(q)}

\* ----------------------------------------------------------- printed lines

Line(kind, idx, name, text, path) ==
    [kind |-> kind, idx |-> idx, name |-> name, text |-> text, path |-> path]

Msg(kind) == Line(kind, 0, <<>>, <<>>, <<>>)

\* info.description.as_deref().unwrap_or("No description")
DescriptionOrDefault(info) ==
    IF IsSome(info.description) THEN Unwrap(info.description) ELSE NoDescription

\* "{}. {} - {}"
ListLine(index, name, info) ==
    Line("list", index + 1, name, DescriptionOrDefault(info), <<>>)

\* display_project_details
display_project_details(info) ==
    << Msg("details_header"),
       Line("project_name", 0, info.name, <<>>, <<>>),
       Line("description", 0, <<>>, DescriptionOrDefault(info), <<>>),
       Line("path", 0, <<>>, <<>>, info.path),
       Line("run_from", 0, <<>>, <<>>, info.path \o <<"target", "release">>) >>

\* -------------------------------------------------------------------- main

Envs ==
    [args : {"none", "list", "help"}, home : BOOLEAN,
     root : {"ok", "missing", "unreadable"}]

DefaultEnv == [args |-> "none", home |-> TRUE, root |-> "ok"]

Running == exit = "running"

Init ==
    /\ env \in Envs
    /\ tree \in Trees
    /\ \/ env = DefaultEnv
       \/ env.root = "ok" /\ env.home /\ tree["d2"] = Absent /\ tree["d3"] = Absent
       \/ tree = EmptyTree
    /\ pc = "start"
    /\ visited = <<>>
    /\ projects = <<>>
    /\ diag = FALSE
    /\ listing = <<>>
    /\ input = <<>>
    /\ out = <<>>
    /\ nPrompts = 0
    /\ nReads = 0
    /\ sig = "none"
    /\ exit = "running"
    /\ sigAt = "none"
    /\ visited2 = <<>>
    /\ projects2 = <<>>

\* ctrlc::set_handler
SetHandler ==
    /\ Running /\ pc = "start"
    /\ pc' = "get_matches"
    /\ UNCHANGED <<env, tree, visited, projects, diag, listing, input, out,
                   nPrompts, nReads, sig, exit, sigAt, visited2, projects2>>

\* Command::get_matches: --help prints the usage and exits with code 0.
GetMatches ==
    /\ Running /\ pc = "get_matches"
    /\ IF env.args = "help"
       THEN /\ out' = <<Msg("usage")>>
            /\ exit' = "code0"
            /\ pc' = "exited"
       ELSE /\ pc' = "list"
            /\ UNCHANGED <<out, exit>>
    /\ UNCHANGED <<env, tree, visited, projects, diag, listing, input,
                   nPrompts, nReads, sig, sigAt, visited2, projects2>>

\* The --list / default branch up to the call of find_projects.
ResolveRoot ==
    /\ Running /\ pc = "list"
    /\ IF ~env.home
       THEN \* expect("Could not find home directory") panics
            /\ exit' = "code101"
            /\ pc' = "exited"
            /\ out' = out
       ELSE IF env.root = "missing"
       THEN /\ out' = <<Msg("sorry_none_found")>>
            /\ pc' = "return"
            /\ exit' = exit
       ELSE /\ pc' = "find_projects"
            /\ UNCHANGED <<out, exit>>
    /\ UNCHANGED <<env, tree, visited, projects, diag, listing, input,
                   nPrompts, nReads, sig, sigAt, visited2, projects2>>

\* fs::read_dir(root) fails: the diagnostic goes to stderr, the map stays empty.
ReadDirFails ==
    /\ Running /\ pc = "find_projects" /\ env.root = "unreadable"
    /\ diag' = TRUE
    /\ pc' = "display_projects"
    /\ UNCHANGED <<env, tree, visited, projects, listing, input, out,
                   nPrompts, nReads, sig, exit, sigAt, visited2, projects2>>

\* One iteration of the for loop, on whichever entry read_dir yields next.
ScanEntry(d) ==
    /\ Running /\ pc = "find_projects" /\ env.root = "ok"
    /\ d \in Present \ Range(visited)
    /\ visited' = Append(visited, d)
    /\ projects' = VisitEntry(projects, d)
    /\ UNCHANGED <<env, tree, pc, diag, listing, input, out,
                   nPrompts, nReads, sig, exit, sigAt, visited2, projects2>>

\* read_dir is exhausted: find_projects returns the map.
ScanDone ==
    /\ Running /\ pc = "find_projects" /\ env.root = "ok"
    /\ Range(visited) = Present
    /\ visited' = <<>>
    /\ pc' = "display_projects"
    /\ UNCHANGED <<env, tree, projects, diag, listing, input, out,
                   nPrompts, nReads, sig, exit, sigAt, visited2, projects2>>

\* --------------------------------------------------------- display_projects

\* BTreeMap::is_empty
IsEmptyNever(m) == FALSE

IsEmpty(m) == Len(m) = 0

\* index - 1 on usize without overflow checks (release profile).
WrappingSub1(i) == IF i = 0 THEN UsizeMax ELSE i - 1

\* The lines standard input may deliver, as read_line returns them:
\* "q\n", " Q \n", "1\n", "+2\n", "3\n", "0\n", "" (end of input), "-1\n", "x\n".
InputLines ==
    { <<113, 10>>, <<32, 81, 32, 10>>, <<49, 10>>, <<43, 50, 10>>, <<51, 10>>,
      <<48, 10>>, <<>>, <<45, 49, 10>>, <<120, 10>> }

\* input.to_lowercase() == "q"
IsQuit(s) == ToLowercase(s) = <<113>>

DisplayEmpty ==
    /\ Running /\ pc = "display_projects"
    /\ IsEmpty(projects)
    /\ out' = <<Msg("no_projects_found")>>
    /\ pc' = "return"
    /\ UNCHANGED <<env, tree, visited, projects, diag, listing, input,
                   nPrompts, nReads, sig, exit, sigAt, visited2, projects2>>

\* The listing loop and the "Enter the number..." line.
DisplayListing ==
    /\ Running /\ pc = "display_projects"
    /\ ~IsEmpty(projects)
    /\ listing' =
           [i \in 1..Len(projects) |->
               ListLine(i - 1, projects[i].key, projects[i].value)]
    /\ out' = listing' \o <<Msg("enter_number")>>
    /\ pc' = "loop"
    /\ UNCHANGED <<env, tree, visited, projects, diag, input,
                   nPrompts, nReads, sig, exit, sigAt, visited2, projects2>>

\* print!("> ") and the flush (the flush is taken to succeed)
Prompt ==
    /\ Running /\ pc = "loop"
    /\ nPrompts' = nPrompts + 1
    /\ out' = <<Msg("prompt")>>
    /\ pc' = "read_line"
    /\ UNCHANGED <<env, tree, visited, projects, diag, listing, input,
                   nReads, sig, exit, sigAt, visited2, projects2>>

\* read_line and trim.  Lines are valid UTF-8, so read_line's expect does
\* not fire; the empty line is what read_line returns at end of input.
ReadLine(l) ==
    /\ Running /\ pc = "read_line"
    /\ nReads < MaxReads
    /\ nReads' = nReads + 1
    /\ input' = Trim(l)
    /\ pc' = "dispatch"
    /\ UNCHANGED <<env, tree, visited, projects, diag, listing, out,
                   nPrompts, sig, exit, sigAt, visited2, projects2>>

Quit ==
    /\ Running /\ pc = "dispatch"
    /\ IsQuit(input)
    /\ out' = <<Msg("exiting")>>
    /\ pc' = "return"
    /\ UNCHANGED <<env, tree, visited, projects, diag, listing, input,
                   nPrompts, nReads, sig, exit, sigAt, visited2, projects2>>

\* index - 1 with overflow checks (debug profile) panics on index = 0.
SubOverflow ==
    /\ Running /\ pc = "dispatch"
    /\ ~IsQuit(input)
    /\ ParseUsize(input) = Some(0)
    /\ exit' = "code101"
    /\ pc' = "exited"
    /\ UNCHANGED <<env, tree, visited, projects, diag, listing, input, out,
                   nPrompts, nReads, sig, sigAt, visited2, projects2>>

ShowDetail ==
    /\ Running /\ pc = "dispatch"
    /\ ~IsQuit(input)
    /\ IsSome(ParseUsize(input))
    /\ LET index == Unwrap(ParseUsize(input))
           sel == Nth(projects, WrappingSub1(index))
       IN  /\ IsSome(sel)
           /\ out' = display_project_details(Unwrap(sel).value)
    /\ pc' = "loop"
    /\ UNCHANGED <<env, tree, visited, projects, diag, listing, input,
                   nPrompts, nReads, sig, exit, sigAt, visited2, projects2>>

InvalidSelection ==
    /\ Running /\ pc = "dispatch"
    /\ ~IsQuit(input)
    /\ IsSome(ParseUsize(input))
    /\ ~IsSome(Nth(projects, WrappingSub1(Unwrap(ParseUsize(input)))))
    /\ out' = <<Msg("invalid_selection")>>
    /\ pc' = "loop"
    /\ UNCHANGED <<env, tree, visited, projects, diag, listing, input,
                   nPrompts, nReads, sig, exit, sigAt, visited2, projects2>>

NotANumber ==
    /\ Running /\ pc = "dispatch"
    /\ ~IsQuit(input)
    /\ ~IsSome(ParseUsize(input))
    /\ out' = <<Msg("enter_valid_number")>>
    /\ pc' = "loop"
    /\ UNCHANGED <<env, tree, visited, projects, diag, listing, input,
                   nPrompts, nReads, sig, exit, sigAt, visited2, projects2>>

\* main returns: the process ends with code 0.
Return ==
    /\ Running /\ pc = "return"
    /\ exit' = "code0"
    /\ pc' = "exited"
    /\ UNCHANGED <<env, tree, visited, projects, diag, listing, input, out,
                   nPrompts, nReads, sig, sigAt, visited2, projects2>>

\* ------------------------------------------------------------------ Ctrl+C

SessionPcs == {"find_projects", "display_projects", "loop", "read_line", "dispatch"}

\* SIGINT before the handler is installed: the default disposition kills
\* the process.
InterruptDefault ==
    /\ Running /\ pc = "start"
    /\ exit' = "sigint"
    /\ UNCHANGED <<env, tree, pc, visited, projects, diag, listing, input, out,
                   nPrompts, nReads, sig, sigAt, visited2, projects2>>

\* SIGINT with the handler installed: the handler thread is woken.
Interrupt ==
    /\ Running /\ pc # "start" /\ sig = "none"
    /\ sig' = "pending"
    /\ sigAt' = IF pc \in SessionPcs THEN "session" ELSE "other"
    /\ UNCHANGED <<env, tree, pc, visited, projects, diag, listing, input, out,
                   nPrompts, nReads, exit, visited2, projects2>>

\* The handler thread: println!("\nProgram interrupted. Exiting...")
HandlerNotice ==
    /\ Running /\ sig = "pending"
    /\ sig' = "noticed"
    /\ UNCHANGED <<env, tree, pc, visited, projects, diag, listing, input, out,
                   nPrompts, nReads, exit, sigAt, visited2, projects2>>

\* The handler thread: std::process::exit(0)
HandlerExit ==
    /\ Running /\ sig = "noticed"
    /\ exit' = "code0"
    /\ UNCHANGED <<env, tree, pc, visited, projects, diag, listing, input, out,
                   nPrompts, nReads, sig, sigAt, visited2, projects2>>

\* ----------------------------------------------------------- specification

Next ==
    \/ SetHandler
    \/ GetMatches
    \/ ResolveRoot
    \/ ReadDirFails
    \/ \E d \in DirNames : ScanEntry(d)
    \/ ScanDone
    \/ DisplayEmpty
    \/ DisplayListing
    \/ Prompt
    \/ \E l \in InputLines : ReadLine(l)
    \/ Quit
    \/ SubOverflow
    \/ ShowDetail
    \/ InvalidSelection
    \/ NotANumber
    \/ Return
    \/ InterruptDefault
    \/ Interrupt
    \/ HandlerNotice
    \/ HandlerExit

Spec == Init /\ [][Next]_vars

\* ------------------------------------- find_projects invoked twice (C9)

\* Both invocations start on the same tree; each enumerates in its own order.
InitTwice ==
    /\ env = DefaultEnv
    /\ tree \in Trees
    /\ pc = "find_projects"
    /\ visited = <<>>
    /\ projects = <<>>
    /\ diag = FALSE
    /\ listing = <<>>
    /\ input = <<>>
    /\ out = <<>>
    /\ nPrompts = 0
    /\ nReads = 0
    /\ sig = "none"
    /\ exit = "running"
    /\ sigAt = "none"
    /\ visited2 = <<>>
    /\ projects2 = <<>>

\* One iteration of the for loop of the second invocation.
ScanEntryAgain(d) ==
    /\ d \in Present \ Range(visited2)
    /\ visited2' = Append(visited2, d)
    /\ projects2' = VisitEntry(projects2, d)
    /\ UNCHANGED <<env, tree, pc, visited, projects, diag, listing, input, out,
                   nPrompts, nReads, sig, exit, sigAt>>

NextTwice ==
    \/ \E d \in DirNames : ScanEntry(d)
    \/ \E d \in DirNames : ScanEntryAgain(d)

SpecTwice == InitTwice /\ [][NextTwice]_vars

\* --------------------------------------- what the tree declares, read directly

\* The manifest of entry d, when d is a directory holding a readable,
\* well-formed Cargo.toml.
HasDoc(d) ==
    /\ tree[d].present /\ tree[d].ok /\ tree[d].is_dir
    /\ tree[d].cargo # <<>>
    /\ tree[d].cargo[1].readable
    /\ tree[d].cargo[1].text.syntax_ok

PackageOf(d) == tree[d].cargo[1].text.doc.val.package

\* d is a subdirectory whose manifest has a package table with a string name.
Valid(d) ==
    /\ HasDoc(d)
    /\ PackageOf(d) # <<>>
    /\ PackageOf(d)[1].type = "Table"
    /\ PackageOf(d)[1].val.name # <<>>
    /\ PackageOf(d)[1].val.name[1].type = "String"

DeclaredName(d) == PackageOf(d)[1].val.name[1].val

DeclaredDescription(d) ==
    LET f == PackageOf(d)[1].val.description
    IN  IF f # <<>> /\ f[1].type = "String" THEN <<f[1].val>> ELSE <<>>

\* Lexicographic order on byte strings, stated without recursion.
LexLess(a, b) ==
    \E k \in 1..(Len(b)) :
        /\ \A j \in 1..(k - 1) : j <= Len(a) /\ a[j] = b[j]
        /\ k - 1 <= Len(a)
        /\ (k = Len(a) + 1 \/ (k <= Len(a) /\ a[k] < b[k]))

Keys(m) == {m[i].key : i \in 1..Len(m)}

\* The positions of q holding a directory that declares name x.
Declaring(q, x) == {i \in 1..Len(q) : Valid(q[i]) /\ DeclaredName(q[i]) = x}

Max(S) == CHOOSE x \in S : \A y \in S : y <= x

\* ------------------------------------------------------------------ claims

\* The line last read has been handled by the loop body.
Handled == nReads > 0 /\ pc # "dispatch"

\* The line last read is (after trimming) "q" or "Q".
QuitCommand == input = <<113>> \/ input = <<81>>

\* The line last read parses as an integer i with 1 <= i <= count.
InRange ==
    /\ IsSome(ParseUsize(input))
    /\ ParseUsize(input)[1] >= 1
    /\ ParseUsize(input)[1] <= Len(projects)

\* C1: once a line that parses as an integer i with 1 <= i <= count has been
\* handled, the lines printed are the details (name, description or "No
\* description", path, run-from path = <path>/target/release) of the project
\* at position i of the name-sorted collection, which is the project the
\* listing printed with number i; the session has not ended and the next
\* thing it prints is the prompt.
C1_SelectShowsListedProject ==
    (Handled /\ InRange) =>
        LET i == ParseUsize(input)[1]
            info == projects[i].value
        IN  /\ pc \in {"loop", "read_line"}
            /\ exit # "code101"
            /\ pc = "loop" =>
                  /\ Len(out) = 5
                  /\ out[1].kind = "details_header"
                  /\ out[2].kind = "project_name" /\ out[2].name = info.name
                  /\ out[3].kind = "description"
                  /\ out[3].text =
                        (IF info.description = <<>> THEN NoDescription
                         ELSE info.description[1])
                  /\ out[4].kind = "path" /\ out[4].path = info.path
                  /\ out[5].kind = "run_from"
                  /\ out[5].path = info.path \o <<"target", "release">>
                  /\ listing[i].idx = i
                  /\ listing[i].name = out[2].name
                  /\ listing[i].text = out[3].text
            /\ pc = "read_line" =>
                  /\ out = <<Msg("prompt")>>
                  /\ nPrompts = nReads + 1

\* "+2" was entered as the second line with three projects discovered: the
\* details of "a" (second after "B") in directory d3 are on screen.
C1_Witness ==
    /\ pc = "loop" /\ nReads = 2 /\ input = <<43, 50>>
    /\ Len(projects) = 3
    /\ Len(out) = 5 /\ out[2].name = S_a
    /\ out[5].path = <<"home", "rust", "d3", "target", "release">>

\* C2: once a line that trims to "q" or "Q" has been handled, the farewell
\* is the last thing the session printed and the loop is over: the main
\* thread is returning or has exited, no prompt was printed after the line
\* was read (prompts = reads) and so no further line can be read.
C2_QuitStopsLoop ==
    (Handled /\ QuitCommand) =>
        /\ pc \in {"return", "exited"}
        /\ out = <<Msg("exiting")>>
        /\ nPrompts = nReads
        /\ exit \in {"running", "code0"}

\* " Q \n" was entered as the second line and the process ended normally.
C2_Witness ==
    /\ pc = "exited" /\ exit = "code0" /\ sig = "none"
    /\ nReads = 2 /\ input = <<81>> /\ out = <<Msg("exiting")>>

\* C3: once a line that is neither a quit command nor an in-range index has
\* been handled, the session is still in its loop (no detail view, no
\* termination, no abort): an integer outside 1..count got the
\* invalid-selection message, anything else the "enter a valid number"
\* message, and the prompt comes next.
C3_RejectedInputReprompts ==
    (Handled /\ ~QuitCommand /\ ~InRange) =>
        /\ pc \in {"loop", "read_line"}
        /\ exit # "code101"
        /\ pc = "loop" =>
              out = (IF IsSome(ParseUsize(input))
                     THEN <<Msg("invalid_selection")>>
                     ELSE <<Msg("enter_valid_number")>>)
        /\ pc = "read_line" =>
              /\ out = <<Msg("prompt")>>
              /\ nPrompts = nReads + 1

\* C4: the collection built by find_projects is, at every point of the scan
\* and afterwards, in strictly increasing lexicographic order of name, and
\* the listing numbers the projects 1..count in that order.
C4_SortedAndListedInOrder ==
    /\ \A i \in 1..(Len(projects) - 1) : LexLess(projects[i].key, projects[i + 1].key)
    /\ pc \in {"loop", "read_line", "dispatch"} =>
          /\ Len(listing) = Len(projects)
          /\ \A i \in 1..Len(listing) :
                /\ listing[i].kind = "list"
                /\ listing[i].idx = i
                /\ listing[i].name = projects[i].key

\* Directories d1, d2, d3 declare "ab", "a", "B": the listing has them as
\* 1. B, 2. a, 3. ab.
C4_Witness ==
    /\ pc = "loop"
    /\ tree["d1"] = Dir(Some(M_ab_e))
    /\ tree["d2"] = Dir(Some(M_a))
    /\ tree["d3"] = Dir(Some(M_B_nonstr))
    /\ Len(listing) = 3
    /\ listing[1].name = S_B /\ listing[3].name = S_ab

\* C5: for every name x declared by a subdirectory enumerated so far, the
\* collection holds exactly one entry for x, and its ProjectInfo is that of
\* the subdirectory enumerated last among those declaring x.
C5_LastDuplicateWins ==
    \A x \in {DeclaredName(visited[i]) : i \in {j \in 1..Len(visited) : Valid(visited[j])}} :
        LET last == visited[Max(Declaring(visited, x))]
        IN  /\ Cardinality({i \in 1..Len(projects) : projects[i].key = x}) = 1
            /\ \A i \in 1..Len(projects) :
                  projects[i].key = x =>
                      /\ projects[i].value.name = x
                      /\ projects[i].value.description = DeclaredDescription(last)
                      /\ projects[i].value.path = RootPath \o <<last>>

\* d2 (name "a", description "d") was enumerated before d1 (name "a", no
\* description): the one entry is d1's.
C5_Witness ==
    /\ pc = "find_projects"
    /\ visited = <<"d2", "d1">>
    /\ tree["d2"] = Dir(Some(M_a_d))
    /\ tree["d1"] = Dir(Some(M_a))
    /\ Len(projects) = 1
    /\ projects[1].value.description = <<>>
    /\ projects[1].value.path = <<"home", "rust", "d1">>

\* The entries enumerated so far that are subdirectories with a manifest
\* that parses and has a string package.name.
ValidVisited == {i \in 1..Len(visited) : Valid(visited[i])}

\* C6 (as claimed): the size of the collection equals the number of
\* subdirectories whose Cargo.toml parses with a present string name.
C6_SizeEqualsValidCount ==
    pc = "find_projects" => Len(projects) = Cardinality(ValidVisited)

\* C6 (amended): the size of the collection equals the number of distinct
\* names declared by those subdirectories, its keys being exactly those
\* names; every other entry contributes nothing.
C6_SizeEqualsDistinctNames ==
    pc = "find_projects" =>
        /\ Keys(projects) = {DeclaredName(visited[i]) : i \in ValidVisited}
        /\ Len(projects) = Cardinality({DeclaredName(visited[i]) : i \in ValidVisited})

\* A manifest with a syntax error and two manifests declaring "a" have been
\* enumerated: one entry.
C6_Witness ==
    /\ pc = "find_projects"
    /\ Len(visited) = 3
    /\ tree["d1"] = Dir(Some(M_syntax))
    /\ Cardinality(ValidVisited) = 2
    /\ Len(projects) = 1

\* display_projects has been entered and has acted.
Displayed ==
    /\ env.args # "help" /\ env.home /\ env.root # "missing"
    /\ pc \in {"loop", "read_line", "dispatch", "return", "exited"}

\* C7: when display_projects is given an empty collection it prints the
\* "no projects found" message and returns: no listing line, no prompt, no
\* line read, and the process ends with code 0, not with an error.
C7_EmptyCollectionEndsAtOnce ==
    (Displayed /\ projects = <<>>) =>
        /\ pc \in {"return", "exited"}
        /\ out = <<Msg("no_projects_found")>>
        /\ listing = <<>>
        /\ nPrompts = 0
        /\ nReads = 0
        /\ exit \in {"running", "code0"}
        /\ (pc = "exited" => exit = "code0")

\* The root holds one plain file and nothing else; the process has ended.
C7_Witness ==
    /\ pc = "exited" /\ exit = "code0" /\ sig = "none"
    /\ tree["d1"] = PlainFile /\ tree["d2"] = Absent /\ tree["d3"] = Absent
    /\ env.root = "ok"
    /\ out = <<Msg("no_projects_found")>>

\* C8: when Ctrl+C was delivered during discovery, listing, the wait for
\* input or a detail view, the process ends only through the handler: the
\* interruption notice has been printed, the exit code is 0, and the main
\* thread did not leave the loop on its own.
C8_InterruptEndsThroughHandler ==
    (sigAt = "session" /\ exit # "running") =>
        /\ sig = "noticed"
        /\ exit = "code0"
        /\ pc \notin {"return", "exited"}

\* Both invocations of find_projects have enumerated every entry.
BothDone == Range(visited) = Present /\ Range(visited2) = Present

\* C9 (as claimed): two invocations on the same tree yield identical
\* collections, whatever the two enumeration orders.
C9_TwiceIdentical == BothDone => projects = projects2

\* C9 (amended): two invocations on the same tree yield the same keys in the
\* same order, and the same ProjectInfo for every name that a single
\* subdirectory declares; they yield identical collections when they
\* enumerate in the same order.
C9_TwiceSameKeys ==
    /\ BothDone =>
          /\ Len(projects) = Len(projects2)
          /\ \A i \in 1..Len(projects) :
                /\ projects[i].key = projects2[i].key
                /\ Cardinality({d \in Present :
                                   Valid(d) /\ DeclaredName(d) = projects[i].key}) = 1
                      => projects[i].value = projects2[i].value
    /\ visited = visited2 => projects = projects2

\* Three distinct names, enumerated d1, d2, d3 the first time and d3, d2, d1
\* the second: the collections are equal.
C9_Witness ==
    /\ visited = <<"d1", "d2", "d3">>
    /\ visited2 = <<"d3", "d2", "d1">>
    /\ Len(projects) = 3
    /\ projects = projects2

\* C10: every ProjectInfo in the collection has a non-empty name and is
\* stored under that name.
C10_NamesNonEmpty ==
    \A i \in 1..Len(projects) :
        /\ projects[i].value.name # <<>>
        /\ projects[i].key = projects[i].value.name

====
